---- MODULE Spec2Model ----
(***************************************************************************)
(* A model of the Voracious Code Storage server (src/server.go).           *)
(*                                                                         *)
(* Bytes are the integers 0..255 and every Go string or []byte is a        *)
(* sequence of bytes.  One goroutine runs handleConnection per connection; *)
(* the goroutines share fileStore under storeMutex.                        *)
(***************************************************************************)
EXTENDS Integers, Sequences, FiniteSets, TLC

----------------------------------------------------------------------------
(* Byte strings of the protocol (the literals of src/server.go).           *)

\* "READY\n"
sREADY == <<82, 69, 65, 68, 89, 10>>
\* "PUT", "GET", "LIST", "HELP"
sPUT == <<80, 85, 84>>
sGET == <<71, 69, 84>>
sLIST == <<76, 73, 83, 84>>
sHELP == <<72, 69, 76, 80>>
\* "ERR usage: PUT file length\nREADY\n"
sErrUsagePut == <<69, 82, 82, 32, 117, 115, 97, 103, 101, 58, 32, 80, 85, 84, 32, 102, 105, 108, 101, 32, 108, 101, 110, 103, 116, 104, 10, 82, 69, 65, 68, 89, 10>>
\* "ERR illegal file name\nREADY\n"
sErrIllegalName == <<69, 82, 82, 32, 105, 108, 108, 101, 103, 97, 108, 32, 102, 105, 108, 101, 32, 110, 97, 109, 101, 10, 82, 69, 65, 68, 89, 10>>
\* "ERR invalid length\nREADY\n"
sErrInvalidLength == <<69, 82, 82, 32, 105, 110, 118, 97, 108, 105, 100, 32, 108, 101, 110, 103, 116, 104, 10, 82, 69, 65, 68, 89, 10>>
\* "ERR text files only\nREADY\n"
sErrTextOnly == <<69, 82, 82, 32, 116, 101, 120, 116, 32, 102, 105, 108, 101, 115, 32, 111, 110, 108, 121, 10, 82, 69, 65, 68, 89, 10>>
\* "ERR usage: GET file [revision]\nREADY\n"
sErrUsageGet == <<69, 82, 82, 32, 117, 115, 97, 103, 101, 58, 32, 71, 69, 84, 32, 102, 105, 108, 101, 32, 91, 114, 101, 118, 105, 115, 105, 111, 110, 93, 10, 82, 69, 65, 68, 89, 10>>
\* "ERR no such file\nREADY\n"
sErrNoFile == <<69, 82, 82, 32, 110, 111, 32, 115, 117, 99, 104, 32, 102, 105, 108, 101, 10, 82, 69, 65, 68, 89, 10>>
\* "ERR no such revision\nREADY\n"
\* (mutant) the error line without the prompt after it
sErrNoRevisionNoPrompt == <<69, 82, 82, 32, 110, 111, 32, 115, 117, 99, 104, 32, 114, 101, 118, 105, 115, 105, 111, 110, 10>>
sErrNoRevision == <<69, 82, 82, 32, 110, 111, 32, 115, 117, 99, 104, 32, 114, 101, 118, 105, 115, 105, 111, 110, 10, 82, 69, 65, 68, 89, 10>>
\* "ERR usage: LIST dir\nREADY\n"
sErrUsageList == <<69, 82, 82, 32, 117, 115, 97, 103, 101, 58, 32, 76, 73, 83, 84, 32, 100, 105, 114, 10, 82, 69, 65, 68, 89, 10>>
\* "OK usage: HELP|GET|PUT|LIST\nREADY\n"
sOkHelp == <<79, 75, 32, 117, 115, 97, 103, 101, 58, 32, 72, 69, 76, 80, 124, 71, 69, 84, 124, 80, 85, 84, 124, 76, 73, 83, 84, 10, 82, 69, 65, 68, 89, 10>>
\* "ERR illegal method: "
sErrIllegalMethod == <<69, 82, 82, 32, 105, 108, 108, 101, 103, 97, 108, 32, 109, 101, 116, 104, 111, 100, 58, 32>>
\* "OK r", "OK ", "DIR"
sOKr == <<79, 75, 32, 114>>
sOK == <<79, 75, 32>>
sDIR == <<68, 73, 82>>

----------------------------------------------------------------------------
(* Library functions the handler calls, by what they do on byte strings.   *)
(* Command lines are ASCII in every input the model sends.                 *)

\* s[i..] and s[..n]
Drop(s, n) == SubSeq(s, n + 1, Len(s))
Take(s, n) == SubSeq(s, 1, n)

\* bytes.Equal
BytesEqual(a, b) == a = b

\* strings.HasPrefix / strings.HasSuffix
HasPrefix(s, p) == Len(s) >= Len(p) /\ Take(s, Len(p)) = p
HasSuffix(s, p) == Len(s) >= Len(p) /\ Drop(s, Len(s) - Len(p)) = p

\* strings.Index(s, "/") style search for one byte: the first position of b
\* in s (1-based), 0 when s does not hold b.
IndexByte(s, b) ==
    IF \E i \in 1..Len(s) : s[i] = b
    THEN CHOOSE i \in 1..Len(s) : s[i] = b /\ \A j \in 1..(i - 1) : s[j] # b
    ELSE 0

\* unicode.IsSpace on ASCII: \t \n \v \f \r and the space
IsSpace(b) == b \in {9, 10, 11, 12, 13, 32}

\* strings.TrimSpace
RECURSIVE TrimLeft(_)
TrimLeft(s) == IF Len(s) > 0 /\ IsSpace(s[1]) THEN TrimLeft(Tail(s)) ELSE s
RECURSIVE TrimRight(_)
TrimRight(s) ==
    IF Len(s) > 0 /\ IsSpace(s[Len(s)]) THEN TrimRight(Take(s, Len(s) - 1)) ELSE s
TrimSpace(s) == TrimRight(TrimLeft(s))

\* strings.Fields: the maximal runs of non-space bytes, in order.
RECURSIVE FieldsFrom(_, _, _)
FieldsFrom(s, cur, acc) ==
    IF Len(s) = 0
    THEN IF Len(cur) > 0 THEN Append(acc, cur) ELSE acc
    ELSE IF IsSpace(s[1])
         THEN FieldsFrom(Tail(s), <<>>, IF Len(cur) > 0 THEN Append(acc, cur) ELSE acc)
         ELSE FieldsFrom(Tail(s), Append(cur, s[1]), acc)
Fields(s) == FieldsFrom(s, <<>>, <<>>)

\* strings.ToUpper / strings.ToLower on ASCII
ToUpper(s) == [i \in 1..Len(s) |-> IF s[i] \in 97..122 THEN s[i] - 32 ELSE s[i]]
\* (mutant) the string as it is
ToLowerKeepsCase(s) == s
ToLower(s) == [i \in 1..Len(s) |-> IF s[i] \in 65..90 THEN s[i] + 32 ELSE s[i]]

\* validPath = regexp.MustCompile(`^[a-zA-Z0-9/._-]+$`)
PathChars == (97..122) \cup (65..90) \cup (48..57) \cup {47, 46, 95, 45}
validPath(s) == Len(s) > 0 /\ \A i \in 1..Len(s) : s[i] \in PathChars

\* strconv.Atoi: an optional sign, then one or more decimal digits.  (Every
\* token of the model is shorter than 19 bytes, so no value overflows.)
RECURSIVE DigitsValue(_, _)
DigitsValue(s, n) ==
    IF Len(s) = 0 THEN n ELSE DigitsValue(Tail(s), n * 10 + (s[1] - 48))
Atoi(s) ==
    LET signed == Len(s) > 0 /\ s[1] \in {43, 45}
        digits == IF signed THEN Tail(s) ELSE s
    IN  IF Len(digits) = 0 \/ \E i \in 1..Len(digits) : digits[i] \notin 48..57
        THEN [err |-> TRUE, val |-> 0]
        ELSE [err |-> FALSE,
              val |-> IF signed /\ s[1] = 45
                      THEN 0 - DigitsValue(digits, 0)
                      ELSE DigitsValue(digits, 0)]

\* fmt.Sprintf("%d", n)
RECURSIVE NatDigits(_)
NatDigits(n) ==
    IF n < 10 THEN <<48 + n>> ELSE Append(NatDigits(n \div 10), 48 + (n % 10))
Itoa(n) == IF n < 0 THEN <<45>> \o NatDigits(0 - n) ELSE NatDigits(n)

\* utf8.Valid: every byte belongs to a well-formed UTF-8 sequence (no
\* overlong form, no surrogate, nothing above U+10FFFF).
Cont(b) == b \in 128..191
RECURSIVE utf8Valid(_)
utf8Valid(p) ==
    IF Len(p) = 0 THEN TRUE
    ELSE LET b == p[1] IN
         IF b < 128 THEN utf8Valid(Tail(p))
         ELSE IF b \in 194..223
              THEN Len(p) >= 2 /\ Cont(p[2]) /\ utf8Valid(Drop(p, 2))
         ELSE IF b \in 224..239
              THEN /\ Len(p) >= 3
                   /\ p[2] \in (IF b = 224 THEN 160..191
                                ELSE IF b = 237 THEN 128..159 ELSE 128..191)
                   /\ Cont(p[3])
                   /\ utf8Valid(Drop(p, 3))
         ELSE IF b \in 240..244
              THEN /\ Len(p) >= 4
                   /\ p[2] \in (IF b = 240 THEN 144..191
                                ELSE IF b = 244 THEN 128..143 ELSE 128..191)
                   /\ Cont(p[3])
                   /\ Cont(p[4])
                   /\ utf8Valid(Drop(p, 4))
         ELSE FALSE

\* (mutant) the loop without its second test, the one for 127
isTextNoDel(fileData) ==
    \A i \in 1..Len(fileData) :
        ~(fileData[i] < 32 /\ fileData[i] # 10 /\ fileData[i] # 13 /\ fileData[i] # 9)

\* The control-character loop of PUT: isText stays true iff no byte is below
\* 32 other than \n, \r, \t and no byte is 127.
isText(fileData) ==
    \A i \in 1..Len(fileData) :
        /\ ~(fileData[i] < 32 /\ fileData[i] # 10 /\ fileData[i] # 13 /\ fileData[i] # 9)
        /\ fileData[i] # 127

----------------------------------------------------------------------------
(* Bounds of the model.                                                    *)

\* chunks the clients send, all connections together
MaxCmds == 4

\* the connections served: two goroutines running handleConnection
Conns == {1, 2}

----------------------------------------------------------------------------
(* State.                                                                  *)

VARIABLES
    fileStore,    \* map: lowercased filename -> sequence of revisions
    storeMutex,   \* sync.RWMutex: w = the writer holding or waiting for it
                  \* (0 = none), r = the connections holding a read lock
    crashed,      \* the process died of an unrecovered panic
    pc,           \* per connection: where its goroutine stands
    reader,       \* per connection: bytes received and not yet read
    nsent,        \* chunks received from the clients so far
    resp,         \* per connection: bytes written to conn since the last
                  \* command line was read
    link,         \* per connection: "up"; "down" once the peer has reset the
                  \* connection, so that conn.Write fails; "werr" once a
                  \* conn.Write has failed
    parts,        \* locals of the loop body, zeroed for each command line
    storeKey,
    length,
    fileData,
    revID,
    targetIndex,
    targetDir,
    entries,
    committed,    \* history: per key, the bytes each revision-creating PUT
                  \* submitted, in the order the store took them
    latest        \* history: per key, the bytes of the last PUT the store took

shared == <<fileStore, storeMutex, crashed, committed, latest>>
client == <<reader, nsent>>
locals == <<parts, storeKey, length, fileData, revID, targetIndex, targetDir, entries>>
vars == <<fileStore, storeMutex, crashed, committed, latest, pc, reader, nsent, resp,
          link, parts, storeKey, length, fileData, revID, targetIndex, targetDir, entries>>

NoEntries == [n \in {} |-> <<>>]

Init ==
    /\ fileStore = [k \in {} |-> <<>>]
    /\ storeMutex = [w |-> 0, r |-> {}]
    /\ crashed = FALSE
    /\ committed = [k \in {} |-> <<>>]
    /\ latest = [k \in {} |-> <<>>]
    /\ pc = [c \in Conns |-> "greet"]
    /\ reader = [c \in Conns |-> <<>>]
    /\ nsent = 0
    /\ resp = [c \in Conns |-> <<>>]
    /\ link = [c \in Conns |-> "up"]
    /\ parts = [c \in Conns |-> <<>>]
    /\ storeKey = [c \in Conns |-> <<>>]
    /\ length = [c \in Conns |-> 0]
    /\ fileData = [c \in Conns |-> <<>>]
    /\ revID = [c \in Conns |-> 0]
    /\ targetIndex = [c \in Conns |-> 0]
    /\ targetDir = [c \in Conns |-> <<>>]
    /\ entries = [c \in Conns |-> NoEntries]

----------------------------------------------------------------------------
(* The store: the code between Lock and Unlock, and between RLock and      *)
(* RUnlock, as functions of the map.                                       *)

\* fileStore[storeKey]: the nil slice for a key the map does not hold
Revisions(store, key) == IF key \in DOMAIN store THEN store[key] ELSE <<>>

\* (mutant) the new revision goes in front of the older ones
StoreAppendFront(store, key, data) ==
    [k \in DOMAIN store \cup {key} |->
        IF k = key THEN <<data>> \o Revisions(store, key) ELSE store[k]]

\* fileStore[storeKey] = append(fileStore[storeKey], fileData)
StoreAppend(store, key, data) ==
    [k \in DOMAIN store \cup {key} |->
        IF k = key THEN Append(Revisions(store, key), data) ELSE store[k]]

\* (mutant) the duplicate check looks at every revision, not only the last
StorePutDedupAny(store, key, data) ==
    LET currentRevisions == Revisions(store, key) IN
    IF \E i \in 1..Len(currentRevisions) : BytesEqual(currentRevisions[i], data)
    THEN [store |-> store,
          revID |-> CHOOSE i \in 1..Len(currentRevisions) :
                        /\ BytesEqual(currentRevisions[i], data)
                        /\ \A j \in 1..(i - 1) : ~BytesEqual(currentRevisions[j], data)]
    ELSE [store |-> StoreAppend(store, key, data),
          revID |-> Len(StoreAppend(store, key, data)[key])]

\* (mutant) no duplicate check: every PUT appends
StorePutNoDedup(store, key, data) ==
    [store |-> StoreAppend(store, key, data),
     revID |-> Len(StoreAppend(store, key, data)[key])]

\* (mutant) the id of a new revision is the count read before the append
StorePutStaleId(store, key, data) ==
    LET currentRevisions == Revisions(store, key) IN
    IF Len(currentRevisions) > 0
       /\ BytesEqual(currentRevisions[Len(currentRevisions)], data)
    THEN [store |-> store, revID |-> Len(currentRevisions)]
    ELSE [store |-> StoreAppend(store, key, data),
          revID |-> IF Len(currentRevisions) = 0 THEN 1 ELSE Len(currentRevisions)]

\* PUT's critical section: the duplicate check against the last revision,
\* the append otherwise, and the revision id of either branch.
StorePut(store, key, data) ==
    LET currentRevisions == Revisions(store, key) IN
    IF Len(currentRevisions) > 0
       /\ BytesEqual(currentRevisions[Len(currentRevisions)], data)
    THEN [store |-> store, revID |-> Len(currentRevisions)]
    ELSE [store |-> StoreAppend(store, key, data),
          revID |-> Len(StoreAppend(store, key, data)[key])]

\* (mutant) the revision number is used as the slice index as it stands
StoreGetNoConvert(store, key, args) ==
    LET revisions == Revisions(store, key)
        nofile == [status |-> "nofile", index |-> 0, data |-> <<>>]
        norev == [status |-> "norev", index |-> 0, data |-> <<>>]
        pick(i) == IF i < 0 \/ i >= Len(revisions)
                   THEN norev
                   ELSE [status |-> "ok", index |-> i, data |-> revisions[i + 1]]
    IN  IF key \notin DOMAIN store THEN nofile
        ELSE IF Len(args) >= 3
             THEN LET revString == args[3] IN
                  IF ~HasPrefix(ToLower(revString), <<114>>) THEN norev
                  ELSE IF Atoi(Tail(revString)).err THEN norev
                  ELSE pick(Atoi(Tail(revString)).val)
             ELSE pick(Len(revisions) - 1)

\* (mutant) only a lower-case r starts a revision token
StoreGetLowerOnly(store, key, args) ==
    LET revisions == Revisions(store, key)
        nofile == [status |-> "nofile", index |-> 0, data |-> <<>>]
        norev == [status |-> "norev", index |-> 0, data |-> <<>>]
        pick(i) == IF i < 0 \/ i >= Len(revisions)
                   THEN norev
                   ELSE [status |-> "ok", index |-> i, data |-> revisions[i + 1]]
    IN  IF key \notin DOMAIN store THEN nofile
        ELSE IF Len(args) >= 3
             THEN LET revString == args[3] IN
                  IF ~HasPrefix(revString, <<114>>) THEN norev
                  ELSE IF Atoi(Tail(revString)).err THEN norev
                  ELSE pick(Atoi(Tail(revString)).val - 1)
             ELSE pick(Len(revisions) - 1)

\* GET's lookup under the read lock: which reply, which index, which bytes.
StoreGet(store, key, args) ==
    LET revisions == Revisions(store, key)
        nofile == [status |-> "nofile", index |-> 0, data |-> <<>>]
        norev == [status |-> "norev", index |-> 0, data |-> <<>>]
        pick(i) == IF i < 0 \/ i >= Len(revisions)
                   THEN norev
                   ELSE [status |-> "ok", index |-> i, data |-> revisions[i + 1]]
    IN  IF key \notin DOMAIN store THEN nofile
        ELSE IF Len(args) >= 3
             THEN LET revString == args[3] IN
                  IF ~HasPrefix(ToLower(revString), <<114>>) THEN norev
                  ELSE IF Atoi(Tail(revString)).err THEN norev
                  ELSE pick(Atoi(Tail(revString)).val - 1)
             ELSE pick(Len(revisions) - 1)

\* LIST's scan under the read lock: display name -> metadata.
RelativeOf(path, dir) == Drop(path, Len(dir))
\* (mutant) the whole relative path, sub-directories not collapsed
EntryNameWhole(path, dir) == RelativeOf(path, dir)
EntryName(path, dir) ==
    LET relative == RelativeOf(path, dir)
        idx == IndexByte(relative, 47)
    IN  IF idx # 0 THEN Append(Take(relative, idx - 1), 47) ELSE relative
StoreList(store, dir) ==
    LET inside == {path \in DOMAIN store : HasPrefix(path, dir)}
        names == {EntryName(path, dir) : path \in inside}
    IN  [name \in names |->
            IF \E path \in inside :
                  EntryName(path, dir) = name /\ IndexByte(RelativeOf(path, dir), 47) # 0
            THEN sDIR
            ELSE LET path == CHOOSE p \in inside : EntryName(p, dir) = name
                 IN  <<114>> \o Itoa(Len(store[path]))]

\* sort.Strings: ascending byte order
RECURSIVE StrLess(_, _)
StrLess(a, b) ==
    IF Len(b) = 0 THEN FALSE
    ELSE IF Len(a) = 0 THEN TRUE
    ELSE IF a[1] # b[1] THEN a[1] < b[1]
    ELSE StrLess(Tail(a), Tail(b))
\* (mutant) the names in descending order
RECURSIVE SortStringsDescending(_)
SortStringsDescending(names) ==
    IF names = {} THEN <<>>
    ELSE LET most == CHOOSE n \in names : \A m \in names \ {n} : StrLess(m, n)
         IN  <<most>> \o SortStringsDescending(names \ {most})

RECURSIVE SortStrings(_)
SortStrings(names) ==
    IF names = {} THEN <<>>
    ELSE LET least == CHOOSE n \in names : \A m \in names \ {n} : StrLess(n, m)
         IN  <<least>> \o SortStrings(names \ {least})

\* the body of the LIST reply: "OK <count>\n", then "<name> <meta>\n" per name
RECURSIVE ListLines(_, _)
ListLines(sortedNames, ents) ==
    IF Len(sortedNames) = 0 THEN <<>>
    ELSE sortedNames[1] \o <<32>> \o ents[sortedNames[1]] \o <<10>>
         \o ListLines(Tail(sortedNames), ents)
ListReply(ents) ==
    LET sortedNames == SortStrings(DOMAIN ents)
    IN  sOK \o Itoa(Len(sortedNames)) \o <<10>> \o ListLines(sortedNames, ents) \o sREADY

----------------------------------------------------------------------------
(* handleConnection, one action per step between two points where the      *)
(* goroutine can block or touch the store.  A step that reads from the     *)
(* connection takes what is buffered; when that is not enough it takes the *)
(* next chunk the client sends (the action's input `chunk`, <<>> for none).*)

\* conn.Write(bytes), its error ignored: the bytes reach the client unless
\* the peer has reset the connection
Write(c, bytes) ==
    /\ resp' = [resp EXCEPT ![c] = IF link[c] = "up" THEN @ \o bytes ELSE @]
    /\ link' = [link EXCEPT ![c] = IF @ = "up" THEN "up" ELSE "werr"]

\* reader.ReadString('\n'): the line up to and with the first newline
HasLine(buf) == IndexByte(buf, 10) # 0
LineOf(buf) == Take(buf, IndexByte(buf, 10))
\* (mutant) everything buffered goes with the line
AfterLineAll(buf) == <<>>
AfterLine(buf) == Drop(buf, IndexByte(buf, 10))
PartsOf(buf) == Fields(TrimSpace(LineOf(buf)))

\* The chunks that can arrive while connection c waits for `need`: none when
\* the buffered bytes already satisfy the read.
Arrivals(c, satisfied, chunks, max) ==
    IF satisfied THEN {<<>>}
    ELSE IF nsent < max /\ link[c] = "up" THEN chunks ELSE {}
Received(chunk) == nsent' = IF chunk = <<>> THEN nsent ELSE nsent + 1

\* A command line is read from buf: the line leaves the reader, the loop
\* body starts with fresh locals, and `out` is what this step writes to conn.
ReadCommand(c, buf, args, out) ==
    /\ reader' = [reader EXCEPT ![c] = AfterLine(buf)]
    /\ parts' = [parts EXCEPT ![c] = args]
    /\ resp' = [resp EXCEPT ![c] = IF link[c] = "up" THEN out ELSE <<>>]
    /\ link' = [link EXCEPT ![c] = IF @ = "up" \/ out = <<>> THEN @ ELSE "werr"]
    /\ fileData' = [fileData EXCEPT ![c] = <<>>]
    /\ revID' = [revID EXCEPT ![c] = 0]
    /\ targetIndex' = [targetIndex EXCEPT ![c] = 0]
    /\ entries' = [entries EXCEPT ![c] = NoEntries]

AtCommand(c, buf) == ~crashed /\ pc[c] = "await" /\ HasLine(buf)

\* conn.Write([]byte("READY\n")) on connect
Greet(c) ==
    /\ ~crashed
    /\ pc[c] = "greet"
    /\ Write(c, sREADY)
    /\ pc' = [pc EXCEPT ![c] = "await"]
    /\ UNCHANGED <<shared, client, locals>>

\* ReadString fails: the client closed the stream before a newline
ReadEOF(c) ==
    /\ ~crashed
    /\ pc[c] = "await"
    /\ ~HasLine(reader[c])
    /\ reader' = [reader EXCEPT ![c] = <<>>]
    /\ pc' = [pc EXCEPT ![c] = "closed"]
    /\ UNCHANGED <<shared, nsent, resp, link, locals>>

\* (mutant) an empty line is answered with a new prompt
CmdEmptyPrompts(c, buf, args) ==
    /\ AtCommand(c, buf)
    /\ Len(args) = 0
    /\ ReadCommand(c, buf, args, sREADY)
    /\ UNCHANGED <<shared, pc, storeKey, length, targetDir>>

\* len(parts) == 0: continue, nothing written
CmdEmpty(c, buf, args) ==
    /\ AtCommand(c, buf)
    /\ Len(args) = 0
    /\ ReadCommand(c, buf, args, <<>>)
    /\ UNCHANGED <<shared, pc, storeKey, length, targetDir>>

\* (mutant) rule 1, the leading "/", is not checked
PutHeaderNoSlashRule(args) ==
    LET filename == args[2]
        none == [key |-> <<>>, length |-> 0]
    IN  IF Len(args) # 3 THEN [next |-> "usage"] @@ none
        ELSE IF ~validPath(filename) THEN [next |-> "illegal"] @@ none
        ELSE IF Atoi(args[3]).err THEN [next |-> "badlen"] @@ none
        ELSE IF Atoi(args[3]).val < 0 THEN [next |-> "panic"] @@ none
        ELSE [next |-> "body", key |-> ToLower(filename), length |-> Atoi(args[3]).val]

\* case "PUT", up to the allocation of the body buffer: what the header
\* leads to, with the key and the length it names.
PutHeader(args) ==
    LET filename == args[2]
        none == [key |-> <<>>, length |-> 0]
    IN  IF Len(args) # 3 THEN [next |-> "usage"] @@ none
        ELSE IF ~HasPrefix(filename, <<47>>) THEN [next |-> "illegal"] @@ none
        ELSE IF ~validPath(filename) THEN [next |-> "illegal"] @@ none
        ELSE IF Atoi(args[3]).err THEN [next |-> "badlen"] @@ none
        ELSE IF Atoi(args[3]).val < 0
             \* make([]byte, length) with a negative length panics
             THEN [next |-> "panic"] @@ none
        ELSE [next |-> "body", key |-> ToLower(filename), length |-> Atoi(args[3]).val]

CmdPut(c, buf, args) ==
    /\ AtCommand(c, buf)
    /\ Len(args) > 0
    /\ ToUpper(args[1]) = sPUT
    /\ LET h == PutHeader(args) IN
       /\ ReadCommand(c, buf, args, CASE h.next = "usage" -> sErrUsagePut
                                [] h.next = "illegal" -> sErrIllegalName
                                [] h.next = "badlen" -> sErrInvalidLength
                                [] OTHER -> <<>>)
       /\ storeKey' = [storeKey EXCEPT ![c] = h.key]
       /\ length' = [length EXCEPT ![c] = h.length]
       /\ pc' = [pc EXCEPT ![c] = CASE h.next = "body" -> "put_body"
                                    [] h.next = "panic" -> "panic"
                                    [] OTHER -> "await"]
       /\ crashed' = (h.next = "panic")
    /\ UNCHANGED <<fileStore, storeMutex, committed, latest, targetDir>>

\* io.ReadFull(reader, fileData), then the two text checks
PutBody(buf, n) ==
    IF ~utf8Valid(Take(buf, n)) \/ ~isText(Take(buf, n))
    THEN [next |-> "await", data |-> Take(buf, n), rest |-> Drop(buf, n)]
    ELSE [next |-> "put_lock", data |-> Take(buf, n), rest |-> Drop(buf, n)]

PutReadBody(c, buf) ==
    /\ ~crashed
    /\ pc[c] = "put_body"
    /\ Len(buf) >= length[c]
    /\ LET b == PutBody(buf, length[c]) IN
       /\ reader' = [reader EXCEPT ![c] = b.rest]
       /\ fileData' = [fileData EXCEPT ![c] = b.data]
       /\ pc' = [pc EXCEPT ![c] = b.next]
       /\ IF b.next = "await" THEN Write(c, sErrTextOnly) ELSE UNCHANGED <<resp, link>>
    /\ UNCHANGED <<shared, parts, storeKey, length, revID, targetIndex,
                   targetDir, entries>>

\* (mutant) the bytes that did arrive are stored before the return
PutShortReadStores(c) ==
    /\ ~crashed
    /\ pc[c] = "put_body"
    /\ Len(reader[c]) < length[c]
    /\ fileStore' = StorePut(fileStore, storeKey[c], reader[c]).store
    /\ reader' = [reader EXCEPT ![c] = <<>>]
    /\ pc' = [pc EXCEPT ![c] = "closed"]
    /\ UNCHANGED <<storeMutex, crashed, committed, latest, nsent, resp, link, locals>>

\* ReadFull fails: the client closed the stream before `length` bytes; return
PutShortRead(c) ==
    /\ ~crashed
    /\ pc[c] = "put_body"
    /\ Len(reader[c]) < length[c]
    /\ reader' = [reader EXCEPT ![c] = <<>>]
    /\ pc' = [pc EXCEPT ![c] = "closed"]
    /\ UNCHANGED <<shared, nsent, resp, link, locals>>

\* storeMutex.Lock(), first half: the writer takes the mutex's writer slot;
\* from here no new reader gets in.
PutLock(c) ==
    /\ ~crashed
    /\ pc[c] = "put_lock"
    /\ storeMutex.w = 0
    /\ storeMutex' = [storeMutex EXCEPT !.w = c]
    /\ pc' = [pc EXCEPT ![c] = "put_locked"]
    /\ UNCHANGED <<fileStore, crashed, committed, latest, client, resp, link, locals>>

\* (mutant) the critical section is entered while readers hold the lock
PutStoreNoWait(c) ==
    /\ ~crashed
    /\ pc[c] = "put_locked"
    /\ LET put == StorePut(fileStore, storeKey[c], fileData[c])
           k == storeKey[c]
           grown == Len(Revisions(put.store, k)) > Len(Revisions(fileStore, k))
       IN  /\ fileStore' = put.store
           /\ revID' = [revID EXCEPT ![c] = put.revID]
           /\ committed' =
                IF grown
                THEN [x \in DOMAIN committed \cup {k} |->
                        IF x = k
                        THEN Append(Revisions(committed, k), fileData[c])
                        ELSE committed[x]]
                ELSE committed
           /\ latest' = [x \in DOMAIN latest \cup {k} |->
                            IF x = k THEN fileData[c] ELSE latest[x]]
    /\ storeMutex' = [storeMutex EXCEPT !.w = 0]
    /\ pc' = [pc EXCEPT ![c] = "put_reply"]
    /\ UNCHANGED <<crashed, client, resp, link, parts, storeKey, length, fileData,
                   targetIndex, targetDir, entries>>

\* Lock() returns once the readers have left; the critical section; Unlock().
PutStore(c) ==
    /\ ~crashed
    /\ pc[c] = "put_locked"
    /\ storeMutex.r = {}
    /\ LET put == StorePut(fileStore, storeKey[c], fileData[c])
           k == storeKey[c]
           grown == Len(Revisions(put.store, k)) > Len(Revisions(fileStore, k))
       IN  /\ fileStore' = put.store
           /\ revID' = [revID EXCEPT ![c] = put.revID]
           /\ committed' =
                IF grown
                THEN [x \in DOMAIN committed \cup {k} |->
                        IF x = k
                        THEN Append(Revisions(committed, k), fileData[c])
                        ELSE committed[x]]
                ELSE committed
           /\ latest' = [x \in DOMAIN latest \cup {k} |->
                            IF x = k THEN fileData[c] ELSE latest[x]]
    /\ storeMutex' = [storeMutex EXCEPT !.w = 0]
    /\ pc' = [pc EXCEPT ![c] = "put_reply"]
    /\ UNCHANGED <<crashed, client, resp, link, parts, storeKey, length, fileData,
                   targetIndex, targetDir, entries>>

\* fmt.Sprintf("OK r%d\nREADY\n", revID)
PutReply(c) ==
    /\ ~crashed
    /\ pc[c] = "put_reply"
    /\ Write(c, sOKr \o Itoa(revID[c]) \o <<10>> \o sREADY)
    /\ pc' = [pc EXCEPT ![c] = "await"]
    /\ UNCHANGED <<shared, client, locals>>

\* case "GET", up to RLock
CmdGet(c, buf, args) ==
    /\ AtCommand(c, buf)
    /\ Len(args) > 0
    /\ ToUpper(args[1]) = sGET
    /\ IF Len(args) < 2
       THEN /\ ReadCommand(c, buf, args, sErrUsageGet)
            /\ storeKey' = [storeKey EXCEPT ![c] = <<>>]
            /\ UNCHANGED pc
       ELSE /\ ReadCommand(c, buf, args, <<>>)
            /\ storeKey' = [storeKey EXCEPT ![c] = ToLower(args[2])]
            /\ pc' = [pc EXCEPT ![c] = "get_rlock"]
    /\ length' = [length EXCEPT ![c] = 0]
    /\ UNCHANGED <<shared, targetDir>>

\* storeMutex.RLock(): blocks while a writer holds or waits for the mutex
GetRLock(c) ==
    /\ ~crashed
    /\ pc[c] = "get_rlock"
    /\ storeMutex.w = 0
    /\ storeMutex' = [storeMutex EXCEPT !.r = @ \cup {c}]
    /\ pc' = [pc EXCEPT ![c] = "get_locked"]
    /\ UNCHANGED <<fileStore, crashed, committed, latest, client, resp, link, locals>>

\* (mutant) the error exits leave without RUnlock
GetLookupKeepsLock(c) ==
    /\ ~crashed
    /\ pc[c] = "get_locked"
    /\ LET got == StoreGet(fileStore, storeKey[c], parts[c]) IN
       /\ targetIndex' = [targetIndex EXCEPT ![c] = got.index]
       /\ fileData' = [fileData EXCEPT ![c] = got.data]
       /\ pc' = [pc EXCEPT ![c] = CASE got.status = "ok" -> "get_header"
                                    [] got.status = "nofile" -> "get_nofile"
                                    [] OTHER -> "get_norev"]
       /\ storeMutex' = IF got.status = "ok"
                        THEN [storeMutex EXCEPT !.r = @ \ {c}]
                        ELSE storeMutex
    /\ UNCHANGED <<fileStore, crashed, committed, latest, client, resp, link, parts,
                   storeKey, length, revID, targetDir, entries>>

\* the lookup under the read lock and RUnlock on each of its exits
GetLookup(c) ==
    /\ ~crashed
    /\ pc[c] = "get_locked"
    /\ LET got == StoreGet(fileStore, storeKey[c], parts[c]) IN
       /\ targetIndex' = [targetIndex EXCEPT ![c] = got.index]
       /\ fileData' = [fileData EXCEPT ![c] = got.data]
       /\ pc' = [pc EXCEPT ![c] = CASE got.status = "ok" -> "get_header"
                                    [] got.status = "nofile" -> "get_nofile"
                                    [] OTHER -> "get_norev"]
    /\ storeMutex' = [storeMutex EXCEPT !.r = @ \ {c}]
    /\ UNCHANGED <<fileStore, crashed, committed, latest, client, resp, link, parts,
                   storeKey, length, revID, targetDir, entries>>

\* an error exit of GET, the lock released: the ERR line and the prompt
GetWriteError(c) ==
    /\ ~crashed
    /\ pc[c] \in {"get_nofile", "get_norev"}
    /\ Write(c, IF pc[c] = "get_nofile" THEN sErrNoFile ELSE sErrNoRevision)
    /\ pc' = [pc EXCEPT ![c] = "await"]
    /\ UNCHANGED <<shared, client, locals>>

\* (mutant) the next command line is read once the header is out, before
\* the bytes and the prompt
GetWriteHeaderOnly(c) ==
    /\ ~crashed
    /\ pc[c] = "get_header"
    /\ Write(c, sOK \o Itoa(Len(fileData[c])) \o <<10>>)
    /\ pc' = [pc EXCEPT ![c] = "await"]
    /\ UNCHANGED <<shared, client, locals>>

\* fmt.Sprintf("OK %d\n", len(fileData))
GetWriteHeader(c) ==
    /\ ~crashed
    /\ pc[c] = "get_header"
    /\ Write(c, sOK \o Itoa(Len(fileData[c])) \o <<10>>)
    /\ pc' = [pc EXCEPT ![c] = "get_body"]
    /\ UNCHANGED <<shared, client, locals>>

\* conn.Write(fileData); conn.Write([]byte("READY\n"))
GetWriteBody(c) ==
    /\ ~crashed
    /\ pc[c] = "get_body"
    /\ Write(c, fileData[c] \o sREADY)
    /\ pc' = [pc EXCEPT ![c] = "await"]
    /\ UNCHANGED <<shared, client, locals>>

\* case "LIST", up to RLock
CmdList(c, buf, args) ==
    /\ AtCommand(c, buf)
    /\ Len(args) > 0
    /\ ToUpper(args[1]) = sLIST
    /\ IF Len(args) # 2
       THEN /\ ReadCommand(c, buf, args, sErrUsageList)
            /\ targetDir' = [targetDir EXCEPT ![c] = <<>>]
            /\ UNCHANGED pc
       ELSE /\ ReadCommand(c, buf, args, <<>>)
            /\ targetDir' = [targetDir EXCEPT ![c] =
                    IF HasSuffix(ToLower(args[2]), <<47>>)
                    THEN ToLower(args[2])
                    ELSE Append(ToLower(args[2]), 47)]
            /\ pc' = [pc EXCEPT ![c] = "list_rlock"]
    /\ storeKey' = [storeKey EXCEPT ![c] = <<>>]
    /\ length' = [length EXCEPT ![c] = 0]
    /\ UNCHANGED shared

ListRLock(c) ==
    /\ ~crashed
    /\ pc[c] = "list_rlock"
    /\ storeMutex.w = 0
    /\ storeMutex' = [storeMutex EXCEPT !.r = @ \cup {c}]
    /\ pc' = [pc EXCEPT ![c] = "list_locked"]
    /\ UNCHANGED <<fileStore, crashed, committed, latest, client, resp, link, locals>>

\* the scan of fileStore into entries, then RUnlock
ListScan(c) ==
    /\ ~crashed
    /\ pc[c] = "list_locked"
    /\ entries' = [entries EXCEPT ![c] = StoreList(fileStore, targetDir[c])]
    /\ storeMutex' = [storeMutex EXCEPT !.r = @ \ {c}]
    /\ pc' = [pc EXCEPT ![c] = "list_write"]
    /\ UNCHANGED <<fileStore, crashed, committed, latest, client, resp, link, parts, storeKey,
                   length, fileData, revID, targetIndex, targetDir>>

\* sort.Strings(sortedNames) and the reply
ListWrite(c) ==
    /\ ~crashed
    /\ pc[c] = "list_write"
    /\ Write(c, ListReply(entries[c]))
    /\ pc' = [pc EXCEPT ![c] = "await"]
    /\ UNCHANGED <<shared, client, locals>>

\* case "HELP"
CmdHelp(c, buf, args) ==
    /\ AtCommand(c, buf)
    /\ Len(args) > 0
    /\ ToUpper(args[1]) = sHELP
    /\ ReadCommand(c, buf, args, sOkHelp)
    /\ storeKey' = [storeKey EXCEPT ![c] = <<>>]
    /\ length' = [length EXCEPT ![c] = 0]
    /\ UNCHANGED <<shared, pc, targetDir>>

\* default: "ERR illegal method: " + cmd
CmdDefault(c, buf, args) ==
    /\ AtCommand(c, buf)
    /\ Len(args) > 0
    /\ ToUpper(args[1]) \notin {sPUT, sGET, sLIST, sHELP}
    /\ ReadCommand(c, buf, args, sErrIllegalMethod \o ToUpper(args[1]) \o <<10>> \o sREADY)
    /\ storeKey' = [storeKey EXCEPT ![c] = <<>>]
    /\ length' = [length EXCEPT ![c] = 0]
    /\ UNCHANGED <<shared, pc, targetDir>>

\* The peer resets the connection (the client is gone, a RST has come in):
\* from here every conn.Write returns an error and nothing more arrives;
\* what bufio has buffered is still there to read.
PeerReset(c) ==
    /\ ~crashed
    /\ pc[c] # "closed"
    /\ link[c] = "up"
    /\ link' = [link EXCEPT ![c] = "down"]
    /\ UNCHANGED <<shared, pc, client, resp, locals>>

\* the steps that read from the connection, on the buffered bytes and the
\* chunk that arrives
\* what a read returns, `chunk` having arrived, and the branch it takes
Dispatch(c, chunk) ==
    LET buf == reader[c] \o chunk
        args == PartsOf(buf)
    IN  \/ CmdEmpty(c, buf, args)
        \/ CmdPut(c, buf, args)
        \/ CmdGet(c, buf, args)
        \/ CmdList(c, buf, args)
        \/ CmdHelp(c, buf, args)
        \/ CmdDefault(c, buf, args)
        \/ PutReadBody(c, buf)

ReadStep(c, chunk) == Received(chunk) /\ Dispatch(c, chunk)

ReadSatisfied(c) ==
    IF pc[c] = "put_body" THEN Len(reader[c]) >= length[c] ELSE HasLine(reader[c])

\* one step of connection c's goroutine, the client sending from `chunks`
Handle(c, chunks, max) ==
    \/ \E chunk \in Arrivals(c, ReadSatisfied(c), chunks, max) : ReadStep(c, chunk)
    \/ Greet(c) \/ ReadEOF(c)
    \/ PutLock(c) \/ PutStore(c) \/ PutReply(c)
    \/ GetRLock(c) \/ GetLookup(c) \/ GetWriteError(c)
    \/ GetWriteHeader(c) \/ GetWriteBody(c)
    \/ ListRLock(c) \/ ListScan(c) \/ ListWrite(c)

----------------------------------------------------------------------------
(* What the clients send.                                                  *)

\* a command line from its tokens, and a PUT with its body
RECURSIVE JoinTokens(_)
JoinTokens(toks) ==
    IF Len(toks) = 0 THEN <<>>
    ELSE IF Len(toks) = 1 THEN toks[1]
    ELSE toks[1] \o <<32>> \o JoinTokens(Tail(toks))
CmdLine(toks) == Append(JoinTokens(toks), 10)
PutChunk(path, body) == CmdLine(<<sPUT, path, Itoa(Len(body))>>) \o body

\* "/a"; the payloads "x", "y"; the revision token "r1"
pA == <<47, 97>>
bX == <<120>>
bY == <<121>>
tR1 == <<114, 49>>

\* Two clients working on one file: uploads of two payloads, reads of the
\* latest and of the first revision, a listing, and one of each other verb.
CoreCmds ==
    { PutChunk(pA, bX), PutChunk(pA, bY),
      CmdLine(<<sGET, pA>>), CmdLine(<<sGET, pA, tR1>>),
      CmdLine(<<sLIST, <<47>>>>), CmdLine(<<sHELP>>), CmdLine(<<bX>>), <<10>> }

Next == \E c \in Conns : Handle(c, CoreCmds, MaxCmds)

Spec == Init /\ [][Next]_vars

\* One client trying the command syntax: well-formed and malformed PUT
\* headers (some followed by a body the server will not read as one, one
\* with a body shorter than declared), revision tokens of every shape, and
\* the other verbs.
ParseCmds ==
    { <<80, 85, 84, 32, 47, 97, 32, 49, 10, 120>>,          \* "PUT /a 1\nx"
      <<80, 85, 84, 32, 47, 97, 32, 49, 10, 121>>,          \* "PUT /a 1\ny"
      <<112, 117, 116, 32, 47, 65, 32, 49, 10, 121>>,       \* "put /A 1\ny"
      <<80, 85, 84, 32, 47, 97, 32, 43, 49, 10, 120>>,      \* "PUT /a +1\nx"
      <<80, 85, 84, 32, 98, 97, 100, 32, 49, 10, 65>>,      \* "PUT bad 1\nA"
      <<80, 85, 84, 32, 47, 104, 97, 115, 32, 115, 112, 97, 99, 101, 32, 49, 10, 65>>,
                                                            \* "PUT /has space 1\nA"
      <<80, 85, 84, 32, 47, 97, 33, 32, 49, 10, 65>>,       \* "PUT /a! 1\nA"
      <<80, 85, 84, 32, 47, 97, 32, 120, 49, 10>>,          \* "PUT /a x1\n"
      <<80, 85, 84, 32, 47, 97, 32, 45, 49, 10>>,           \* "PUT /a -1\n"
      <<80, 85, 84, 32, 47, 97, 10>>,                       \* "PUT /a\n"
      <<80, 85, 84, 32, 47, 97, 32, 49, 10, 0>>,            \* "PUT /a 1\n" NUL
      <<80, 85, 84, 32, 47, 97, 32, 50, 10, 120>>,          \* "PUT /a 2\nx"
      <<71, 69, 84, 32, 47, 97, 10>>,                       \* "GET /a\n"
      <<71, 69, 84, 32, 47, 65, 10>>,                       \* "GET /A\n"
      <<71, 69, 84, 32, 47, 97, 32, 114, 49, 10>>,          \* "GET /a r1\n"
      <<71, 69, 84, 32, 47, 97, 32, 82, 49, 10>>,           \* "GET /a R1\n"
      <<71, 69, 84, 32, 47, 97, 32, 114, 50, 10>>,          \* "GET /a r2\n"
      <<71, 69, 84, 32, 47, 97, 32, 114, 48, 10>>,          \* "GET /a r0\n"
      <<71, 69, 84, 32, 47, 97, 32, 114, 43, 49, 10>>,      \* "GET /a r+1\n"
      <<71, 69, 84, 32, 47, 97, 32, 114, 45, 49, 10>>,      \* "GET /a r-1\n"
      <<71, 69, 84, 32, 47, 97, 32, 114, 120, 10>>,         \* "GET /a rx\n"
      <<71, 69, 84, 32, 47, 97, 32, 120, 49, 10>>,          \* "GET /a x1\n"
      <<71, 69, 84, 32, 47, 97, 32, 114, 10>>,              \* "GET /a r\n"
      <<71, 69, 84, 32, 47, 97, 32, 49, 10>>,               \* "GET /a 1\n"
      <<71, 69, 84, 32, 47, 122, 122, 32, 114, 49, 10>>,    \* "GET /zz r1\n"
      <<71, 69, 84, 32, 47, 122, 122, 32, 120, 49, 10>>,    \* "GET /zz x1\n"
      <<71, 69, 84, 10>>,                                   \* "GET\n"
      <<76, 73, 83, 84, 32, 47, 10>>,                       \* "LIST /\n"
      <<76, 73, 83, 84, 10>>,                               \* "LIST\n"
      <<72, 69, 76, 80, 10>>,                               \* "HELP\n"
      <<120, 10>>,                                          \* "x\n"
      <<10>>,                                               \* "\n"
      <<32, 13, 10>> }                                      \* " \r\n"

\* chunks the one client of SpecParse sends
MaxParseCmds == 3

NextParse == Handle(1, ParseCmds, MaxParseCmds) \/ PutShortRead(1)

SpecParse == Init /\ [][NextParse]_vars

\* One client putting payloads of every kind to /a: every byte string up
\* to MaxBody bytes over a letter, DEL and a UTF-8 lead byte, and the
\* payloads of ExtraBodies.
MaxBody == 2
\* PUTs the one client of SpecText sends
MaxTextCmds == 2

TextAlphabet == {65, 127, 195}

RECURSIVE BodiesUpTo(_)
BodiesUpTo(n) ==
    IF n = 0 THEN {<<>>}
    ELSE LET shorter == BodiesUpTo(n - 1)
         IN  shorter \cup {Append(b, x) : b \in shorter, x \in TextAlphabet}

ExtraBodies ==
    { <<9>>, <<10>>, <<13>>,          \* the three control bytes let through
      <<0>>, <<31>>, <<65, 27>>,      \* other control bytes
      <<128>>, <<255>>,               \* a bare continuation byte, a byte UTF-8 never uses
      <<195, 169>>,                   \* U+00E9
      <<195, 169, 127>>,
      <<192, 128>>,                   \* overlong form of U+0000
      <<226, 130, 172>>,              \* U+20AC
      <<226, 130>>,                   \* U+20AC cut short
      <<237, 160, 128>>,              \* the surrogate U+D800
      <<240, 159, 152, 128>>,         \* U+1F600
      <<244, 144, 128, 128>> }        \* above U+10FFFF

TextCmds == {PutChunk(pA, body) : body \in BodiesUpTo(MaxBody) \cup ExtraBodies}

NextText ==
    \/ \E chunk \in Arrivals(1, ReadSatisfied(1), TextCmds, MaxTextCmds) : ReadStep(1, chunk)
    \/ Greet(1) \/ ReadEOF(1)
    \/ PutLock(1) \/ PutStore(1) \/ PutReply(1)

SpecText == Init /\ [][NextText]_vars

\* Two clients, one of which may send a PUT whose body is shorter than
\* declared; either may close its stream whenever the server waits for it.
MaxEofCmds == 3

tShortPut == <<80, 85, 84, 32, 47, 97, 32, 50, 10, 120>>    \* "PUT /a 2\nx"

EofCmds ==
    { tShortPut, PutChunk(pA, bX), PutChunk(pA, bY),
      CmdLine(<<sGET, pA>>), CmdLine(<<sLIST, <<47>>>>) }

\* the steps of c that wait for nothing from its client: the goroutine is
\* runnable, or blocked on the mutex
Internal(c) ==
    \/ PutLock(c) \/ PutStore(c) \/ PutReply(c)
    \/ GetRLock(c) \/ GetLookup(c) \/ GetWriteError(c)
    \/ GetWriteHeader(c) \/ GetWriteBody(c)
    \/ ListRLock(c) \/ ListScan(c) \/ ListWrite(c)

NextEOF == \E c \in Conns : Handle(c, EofCmds, MaxEofCmds) \/ PutShortRead(c)

\* The scheduler runs every runnable goroutine, and the mutex is handed to a
\* goroutine blocked on it once it is free.
SpecEOF == Init /\ [][NextEOF]_vars /\ \A c \in Conns : WF_vars(Internal(c))

\* One client that sends its commands back to back, two to a chunk, and may
\* be gone before the replies are written.
MaxWriteCmds == 2

WriteCmds ==
    { CmdLine(<<sGET, pA>>) \o PutChunk(pA, bX),
      PutChunk(pA, bX) \o PutChunk(pA, bY),
      CmdLine(<<sHELP>>) \o CmdLine(<<sGET, pA>>),
      CmdLine(<<sLIST, <<47>>>>) }

NextWrite == Handle(1, WriteCmds, MaxWriteCmds) \/ PeerReset(1)

SpecWrite == Init /\ [][NextWrite]_vars

\* One client that does not wait for replies: every chunk holds two command
\* lines (one of them empty in one chunk, one of them refused in another).
MaxPipeCmds == 2

PipeCmds ==
    WriteCmds \cup
    { <<10>> \o CmdLine(<<sHELP>>),
      <<32, 10>> \o CmdLine(<<sGET>>),
      CmdLine(<<sPUT, <<98, 97, 100>>, <<49>>>>) \o CmdLine(<<sGET, pA>>),
      CmdLine(<<sGET, pA>>) \o CmdLine(<<sGET, pA, tR1>>) }

NextPipe == Handle(1, PipeCmds, MaxPipeCmds)

SpecPipe == Init /\ [][NextPipe]_vars

\* One client that uploads a small tree in one chunk, adds to it under
\* other spellings of the same paths, and reads and lists it under several.
MaxListCmds == 3

pDirFile == <<47, 68, 105, 114, 47, 70, 105, 108, 101, 46, 84, 88, 84>>         \* /Dir/File.TXT
pDirFileLower == <<47, 100, 105, 114, 47, 102, 105, 108, 101, 46, 116, 120, 116>>  \* /dir/file.txt
pDirFileUpper == <<47, 68, 73, 82, 47, 70, 73, 76, 69, 46, 84, 88, 84>>         \* /DIR/FILE.TXT
pSubB == <<47, 100, 105, 114, 47, 115, 117, 98, 47, 98>>                        \* /dir/sub/b
pSubC == <<47, 100, 105, 114, 47, 83, 117, 98, 47, 99>>                         \* /dir/Sub/c
pDirxA == <<47, 100, 105, 114, 120, 47, 97>>                                    \* /dirx/a
pB == <<47, 98>>                                                                \* /b
pDirSlash == <<47, 68, 73, 82, 47>>                                             \* /DIR/
dDir == <<47, 100, 105, 114>>                                                   \* /dir
dDirUpper == <<47, 68, 73, 82>>                                                 \* /DIR
dDirSlash == <<47, 68, 105, 114, 47>>                                           \* /Dir/
dRoot == <<47>>                                                                 \* /
dNope == <<47, 110, 111, 112, 101>>                                             \* /nope
dSub == <<47, 100, 105, 114, 47, 115, 117, 98>>                                 \* /dir/sub
dDirx == <<47, 68, 73, 82, 88>>                                                 \* /DIRX

\* the tree, uploaded without waiting for the replies
TreeUpload ==
    PutChunk(pDirFile, bX) \o PutChunk(pSubB, bX) \o PutChunk(pSubC, bX)
    \o PutChunk(pDirxA, bX) \o PutChunk(pB, bY)

ListCmds ==
    { TreeUpload,
      PutChunk(pDirFileLower, bY), PutChunk(pDirFile, bX), PutChunk(pDirSlash, bX),
      PutChunk(pB, bX),
      CmdLine(<<sGET, pDirFileUpper>>), CmdLine(<<sGET, pDirFileLower, tR1>>),
      CmdLine(<<sLIST, dDir>>), CmdLine(<<sLIST, dDirUpper>>), CmdLine(<<sLIST, dDirSlash>>),
      CmdLine(<<sLIST, dRoot>>), CmdLine(<<sLIST, dNope>>), CmdLine(<<sLIST, dSub>>),
      CmdLine(<<sLIST, dDirx>>) }

NextList == Handle(1, ListCmds, MaxListCmds)

SpecList == Init /\ [][NextList]_vars

\* Two clients, uploading to a file and into a directory, listing both and
\* fetching the file, by default and by a revision it may not have, while
\* the other uploads.
MaxSnapCmds == 3

pDB == <<47, 100, 47, 98>>    \* /d/b
tR2 == <<114, 50>>
dD == <<47, 100>>             \* /d

SnapCmds ==
    { PutChunk(pA, bX), PutChunk(pA, bY), PutChunk(pDB, bX),
      CmdLine(<<sLIST, dRoot>>), CmdLine(<<sLIST, dD>>), CmdLine(<<sGET, pA>>),
      CmdLine(<<sGET, pA, tR2>>) }

NextSnap == \E c \in Conns : Handle(c, SnapCmds, MaxSnapCmds)

SpecSnap == Init /\ [][NextSnap]_vars

\* Two clients that never run out of commands: uploads of the same payload
\* to two files, which the store takes once each, fetches, listings, an
\* upload declaring a negative length, and an upload that stops inside its
\* body.  A client sends a command only when the server awaits one, may
\* stall at any time, and may end its stream at any time.
tNegPut == <<80, 85, 84, 32, 47, 97, 32, 45, 49, 10>>    \* "PUT /a -1\n"

LiveCmds ==
    { PutChunk(pA, bX), PutChunk(pDB, bX), tShortPut, tNegPut,
      CmdLine(<<sGET, pA>>), CmdLine(<<sGET, pA, tR2>>), CmdLine(<<sLIST, dRoot>>) }

HandleForever(c, chunks) ==
    \/ /\ nsent' = nsent
       /\ \E chunk \in IF ReadSatisfied(c) THEN {<<>>}
                       ELSE IF pc[c] = "await" THEN chunks ELSE {} :
              Dispatch(c, chunk)
    \/ Greet(c) \/ ReadEOF(c) \/ PutShortRead(c)
    \/ Internal(c)

NextLive == \E c \in Conns : HandleForever(c, LiveCmds)

\* The goroutine of a connection that can take a step is scheduled.
\* sync.Mutex hands the lock to a waiter that has waited long enough, and
\* the readers that wait when a writer unlocks enter before the next writer:
\* an acquire that can be taken again and again is taken.
FairLive ==
    \A c \in Conns :
        /\ WF_vars(Internal(c))
        /\ SF_vars(PutLock(c))
        /\ SF_vars(GetRLock(c))
        /\ SF_vars(ListRLock(c))

SpecLive == Init /\ [][NextLive]_vars /\ FairLive

----------------------------------------------------------------------------
(* Properties.  Steps of a connection are recognised by its pc.            *)

PutBodyStep(c) == pc[c] = "put_body" /\ pc'[c] = "put_lock"
PutStoreStep(c) == pc[c] = "put_locked" /\ pc'[c] = "put_reply"
PutReplyStep(c) == pc[c] = "put_reply" /\ pc'[c] = "await"
GetLookupStep(c) == pc[c] = "get_locked" /\ pc'[c] # "get_locked"
GetErrorStep(c) == pc[c] \in {"get_nofile", "get_norev"} /\ pc'[c] = "await"
GetBodyStep(c) == pc[c] = "get_body" /\ pc'[c] = "await"

\* the payload of c's PUT equals the last revision of its key
TailDuplicate(c) ==
    LET revs == Revisions(fileStore, storeKey[c])
    IN  Len(revs) > 0 /\ revs[Len(revs)] = fileData[c]

IsPrefix(a, b) == Len(a) <= Len(b) /\ Take(b, Len(a)) = a
LastOf(seq) == seq[Len(seq)]
OkRevision(n) == sOKr \o Itoa(n) \o <<10>> \o sREADY
OkBytes(data) == sOK \o Itoa(Len(data)) \o <<10>> \o data \o sREADY

\* C1: an accepted PUT whose payload is not the last revision of its key
\* (or whose key is new) adds exactly one revision, the bytes read from the
\* stream for the declared length, as the new last one; every other file is
\* untouched; and the reply is "OK r<new count>", whatever the connections
\* interleave and even when the payload equals an older revision.
C1_PutAppends ==
    [][\A c \in Conns :
        /\ PutBodyStep(c) =>
              /\ Len(fileData'[c]) = length[c]
              /\ \E chunk \in CoreCmds \cup {<<>>} :
                     reader[c] \o chunk = fileData'[c] \o reader'[c]
        /\ (PutStoreStep(c) /\ ~TailDuplicate(c)) =>
              LET k == storeKey[c] IN
              /\ k \in DOMAIN fileStore'
              /\ Len(fileStore'[k]) = Len(Revisions(fileStore, k)) + 1
              /\ LastOf(fileStore'[k]) = fileData[c]
              /\ IsPrefix(Revisions(fileStore, k), fileStore'[k])
              /\ \A o \in DOMAIN fileStore \ {k} :
                     o \in DOMAIN fileStore' /\ fileStore'[o] = fileStore[o]
              /\ revID'[c] = Len(fileStore'[k])
        /\ PutReplyStep(c) => resp'[c] = resp[c] \o OkRevision(revID[c])
      ]_vars

\* C1 witness: x, y, x were put to /a and the third PUT got revision 3
C1_Witness ==
    \E c \in Conns :
        /\ pc[c] = "put_reply"
        /\ revID[c] = 3
        /\ Revisions(fileStore, pA) = <<bX, bY, bX>>

\* C2: an accepted PUT whose payload equals the last revision of its key
\* leaves the store as it is and is answered "OK r<n>", n the count the key
\* had before.
C2_PutDuplicate ==
    [][\A c \in Conns :
        /\ (PutStoreStep(c) /\ TailDuplicate(c)) =>
              /\ fileStore' = fileStore
              /\ revID'[c] = Len(fileStore[storeKey[c]])
              /\ committed' = committed
        /\ PutReplyStep(c) =>
              /\ resp[c] = <<>>
              /\ resp'[c] = OkRevision(revID[c])
      ]_vars

\* C2 witness: both connections put x to /a, one after the other, and both
\* were answered OK r1
C2_Witness ==
    /\ \A c \in Conns :
          /\ pc[c] = "await"
          /\ parts[c] = <<sPUT, pA, <<49>>>>
          /\ fileData[c] = bX
          /\ resp[c] = OkRevision(1)
    /\ fileStore[pA] = <<bX>>

\* C3: GET k returns the bytes of the last PUT the store took for k, so a
\* PUT(k, b) followed by GET k, no other writer of k in between, returns b;
\* GET k r1 returns the bytes of the first PUT of k; and the reply is
\* "OK <len>\n", the len bytes with nothing added, then "READY\n".
C3_RoundTrip ==
    [][\A c \in Conns :
        /\ (GetLookupStep(c) /\ storeKey[c] \in DOMAIN latest) =>
              /\ Len(parts[c]) = 2 =>
                    pc'[c] = "get_header" /\ fileData'[c] = latest[storeKey[c]]
              /\ (Len(parts[c]) = 3 /\ parts[c][3] = tR1) =>
                    pc'[c] = "get_header" /\ fileData'[c] = committed[storeKey[c]][1]
        /\ GetBodyStep(c) =>
              /\ resp'[c] = OkBytes(fileData[c])
              /\ Len(resp'[c]) = 3 + Len(Itoa(Len(fileData[c]))) + 1
                                   + Len(fileData[c]) + Len(sREADY)
      ]_vars

\* C3 witness: after x and y were put to /a, GET /a r1 was answered with x
C3_Witness ==
    \E c \in Conns :
        /\ pc[c] = "await"
        /\ parts[c] = <<sGET, pA, tR1>>
        /\ resp[c] = OkBytes(bX)
        /\ Revisions(fileStore, pA) = <<bX, bY>>

\* C4: no step shortens or reorders a file or removes a key, and a GET of
\* revision n writes the bytes submitted by the PUT that created revision n,
\* also when other connections append to the file between the reader's
\* RUnlock and its writes.
C4_Immutable ==
    [][/\ \A k \in DOMAIN fileStore :
              k \in DOMAIN fileStore' /\ IsPrefix(fileStore[k], fileStore'[k])
       /\ \A c \in Conns :
              /\ pc'[c] \in {"get_header", "get_body"} =>
                    /\ storeKey'[c] \in DOMAIN committed'
                    /\ targetIndex'[c] + 1 \in 1..Len(committed'[storeKey'[c]])
                    /\ fileData'[c] = committed'[storeKey'[c]][targetIndex'[c] + 1]
              /\ (GetLookupStep(c) /\ pc'[c] = "get_header" /\ Len(parts[c]) >= 3) =>
                    targetIndex'[c] + 1 = Atoi(Tail(parts[c][3])).val
              /\ GetBodyStep(c) =>
                    resp'[c] = OkBytes(committed[storeKey[c]][targetIndex[c] + 1])
      ]_vars

\* C4 witness: a reader took revision 1 of /a as the latest, released the
\* lock, and a second revision was appended before it wrote the body
C4_Witness ==
    \E c \in Conns :
        /\ pc[c] = "get_body"
        /\ storeKey[c] = pA
        /\ Len(parts[c]) = 2
        /\ targetIndex[c] = 0
        /\ Len(Revisions(fileStore, pA)) = 2

\* a PUT of c is serialized while the PUT of d to the same key, serialized
\* before it, has not been answered yet
SecondOfTwoPuts(c, d) ==
    /\ c # d
    /\ PutStoreStep(c)
    /\ pc[d] = "put_reply"
    /\ storeKey[d] = storeKey[c]

\* C5 as stated: of two concurrent PUTs to one key, the one serialized
\* second gets a revision id strictly greater than the first one's.
C5_StrictlyGreater ==
    [][\A c, d \in Conns : SecondOfTwoPuts(c, d) => revID'[c] > revID[d]]_vars

\* C5 as amended: both PUTs are answered OK; the second one's id is never
\* below the first one's, and it is strictly greater whenever the second
\* payload is not the last revision the second PUT finds (a tail duplicate
\* gets the id of the revision it duplicates).
C5_Serialized ==
    [][\A c, d \in Conns :
        /\ SecondOfTwoPuts(c, d) =>
              /\ revID'[c] >= revID[d]
              /\ ~TailDuplicate(c) => revID'[c] > revID[d]
              /\ TailDuplicate(c) => revID'[c] = Len(fileStore[storeKey[c]])
              /\ pc'[d] = "put_reply"
        /\ PutReplyStep(c) => resp'[c] = OkRevision(revID[c])
      ]_vars

\* C5 witness: two PUTs to /a with different payloads are both serialized
\* and not yet answered, with revisions 1 and 2
C5_Witness ==
    /\ \A c \in Conns : pc[c] = "put_reply" /\ storeKey[c] = pA
    /\ fileData[1] # fileData[2]
    /\ {revID[1], revID[2]} = {1, 2}

----------------------------------------------------------------------------
(* The command syntax, checked under SpecParse.                            *)

\* a step of c that reads a command line
LineRead(c) ==
    /\ pc[c] = "await"
    /\ pc'[c] # "closed"
    /\ <<reader[c], nsent>>' # <<reader[c], nsent>>

\* what the reading step of c had to read from: the buffered bytes, and the
\* chunk that arrived when those did not satisfy the read
ReadFrom(c, chunks) ==
    IF ReadSatisfied(c) THEN {reader[c]}
    ELSE {reader[c] \o chunk : chunk \in chunks}

RECURSIVE AfterFirstNewline(_)
AfterFirstNewline(buf) ==
    IF Len(buf) = 0 THEN <<>>
    ELSE IF Head(buf) = 10 THEN Tail(buf)
    ELSE AfterFirstNewline(Tail(buf))

PathAlphabet == (48..57) \cup (65..90) \cup (97..122) \cup {45, 46, 47, 95}
WellFormedPath(s) ==
    /\ Len(s) > 0
    /\ s[1] = 47
    /\ \A i \in 1..Len(s) : s[i] \in PathAlphabet

\* the token parses as a decimal integer and that integer is not negative
NonNegativeDecimal(tok) == ~Atoi(tok).err /\ Atoi(tok).val >= 0

IsPutHeader(args) == Len(args) > 0 /\ ToUpper(args[1]) = sPUT

\* the header's text between the verb and the length, its last token
PathArgument(args) == JoinTokens(SubSeq(args, 2, Len(args) - 1))

tBad == <<98, 97, 100>>
tAHELP == <<65, 72, 69, 76, 80>>
tUpperR1 == <<82, 49>>

\* C6: a PUT header of exactly three tokens, its path well-formed, whose
\* length token does not parse as a non-negative decimal integer is
\* answered "ERR invalid length", "READY"; no body byte is read, the store
\* is unchanged and the process keeps running.
C6_InvalidLength ==
    [][\A c \in Conns :
        (/\ LineRead(c)
         /\ IsPutHeader(parts'[c])
         /\ Len(parts'[c]) = 3
         /\ WellFormedPath(parts'[c][2])
         /\ ~NonNegativeDecimal(parts'[c][3])) =>
            /\ resp'[c] = sErrInvalidLength
            /\ pc'[c] = "await"
            /\ ~crashed'
            /\ fileStore' = fileStore
            /\ \E buf \in ReadFrom(c, ParseCmds) : reader'[c] = AfterFirstNewline(buf)
      ]_vars

\* C7 as stated: a PUT whose path argument, the text between the verb and
\* the length, is not well-formed (no leading "/", or a character outside
\* [A-Za-z0-9/._-], a space included) is answered "ERR illegal file name",
\* "READY".
C7_IllegalPath ==
    [][\A c \in Conns :
        (/\ LineRead(c)
         /\ IsPutHeader(parts'[c])
         /\ Len(parts'[c]) >= 3
         /\ ~WellFormedPath(PathArgument(parts'[c]))) =>
            /\ resp'[c] = sErrIllegalName
            /\ pc'[c] = "await"
      ]_vars

\* C7, amended: a PUT header of exactly three tokens whose path token is not
\* well-formed is answered "ERR illegal file name", "READY"; a header of any
\* other number of tokens, which is what a space inside the path makes, is
\* answered "ERR usage: PUT file length", "READY".  Neither touches the store.
C7_IllegalPathToken ==
    [][\A c \in Conns :
        (LineRead(c) /\ IsPutHeader(parts'[c])) =>
            /\ (Len(parts'[c]) = 3 /\ ~WellFormedPath(parts'[c][2])) =>
                  /\ resp'[c] = sErrIllegalName
                  /\ pc'[c] = "await"
                  /\ fileStore' = fileStore
            /\ Len(parts'[c]) # 3 =>
                  /\ resp'[c] = sErrUsagePut
                  /\ pc'[c] = "await"
                  /\ fileStore' = fileStore
      ]_vars

\* C7 witness: "PUT bad 1" was answered ERR illegal file name
C7_Witness ==
    /\ pc[1] = "await"
    /\ parts[1] = <<sPUT, tBad, <<49>>>>
    /\ resp[1] = sErrIllegalName

sERR == <<69, 82, 82, 32>>

\* this step of c writes an ERR reply
ErrWritten(c) ==
    /\ resp'[c] # resp[c]
    /\ \/ HasPrefix(resp'[c], sERR) /\ pc[c] = "await"
       \/ resp'[c] \in {resp[c] \o sErrTextOnly, resp[c] \o sErrNoFile,
                        resp[c] \o sErrNoRevision}

\* C8: a PUT rejected with "ERR illegal file name" leaves the connection
\* awaiting a command, and the bytes left to read start at the first byte
\* after the header's newline, so that a body sent anyway is read as
\* commands.  Every command answered with an ERR consumes its own line and
\* nothing more, except "ERR text files only", which also consumes the
\* declared length of body bytes and nothing more.
C8_ErrConsumesLine ==
    [][\A c \in Conns :
        /\ (LineRead(c) /\ resp'[c] = sErrIllegalName) =>
              /\ pc'[c] = "await"
              /\ ~crashed'
              /\ \E buf \in ReadFrom(c, ParseCmds) :
                     reader'[c] = AfterFirstNewline(buf)
        /\ ErrWritten(c) =>
              /\ pc'[c] = "await"
              /\ ~crashed'
              /\ pc[c] = "await" =>
                    \E buf \in ReadFrom(c, ParseCmds) :
                        reader'[c] = AfterFirstNewline(buf)
              /\ pc[c] = "put_body" =>
                    /\ resp'[c] = sErrTextOnly
                    /\ \E buf \in ReadFrom(c, ParseCmds) :
                          /\ Len(buf) >= length[c]
                          /\ reader'[c] = SubSeq(buf, length[c] + 1, Len(buf))
              /\ pc[c] \notin {"await", "put_body"} =>
                    /\ GetErrorStep(c)
                    /\ reader'[c] = reader[c]
                    /\ nsent' = nsent
      ]_vars

\* C8 witness: the body byte A sent after "PUT bad 1" was read as the start
\* of the next command line, AHELP
C8_Witness ==
    /\ pc[1] = "await"
    /\ parts[1] = <<tAHELP>>
    /\ resp[1] = sErrIllegalMethod \o tAHELP \o <<10>> \o sREADY

\* the revision a token names: r or R, then a decimal integer that is not
\* negative; 0 when the token names none
RevisionNamed(tok) ==
    IF Len(tok) > 0 /\ tok[1] \in {114, 82} /\ NonNegativeDecimal(Tail(tok))
    THEN Atoi(Tail(tok)).val
    ELSE 0

\* C10: GET k [tok].  When the lower-cased k is not a key of the store the
\* reply is "ERR no such file", whatever tok is.  Otherwise, with a token,
\* the reply is OK with the bytes of revision n iff tok is r or R followed
\* by a decimal integer n, not negative, with 1 <= n <= the number of
\* revisions, and "ERR no such revision" for every other token; without a
\* token it is OK with the last revision.
C10_GetResolution ==
    [][\A c \in Conns :
        /\ GetLookupStep(c) =>
              LET k == ToLower(parts[c][2])
                  n == RevisionNamed(parts[c][3])
              IN  /\ k \notin DOMAIN fileStore => pc'[c] = "get_nofile"
                  /\ (k \in DOMAIN fileStore /\ Len(parts[c]) >= 3) =>
                        IF 1 <= n /\ n <= Len(fileStore[k])
                        THEN /\ pc'[c] = "get_header"
                             /\ fileData'[c] = fileStore[k][n]
                             /\ resp'[c] = <<>>
                        ELSE pc'[c] = "get_norev"
                  /\ (k \in DOMAIN fileStore /\ Len(parts[c]) = 2) =>
                        /\ pc'[c] = "get_header"
                        /\ fileData'[c] = LastOf(fileStore[k])
                        /\ resp'[c] = <<>>
        /\ GetErrorStep(c) =>
              resp'[c] = IF pc[c] = "get_nofile" THEN sErrNoFile ELSE sErrNoRevision
        /\ GetBodyStep(c) => resp'[c] = OkBytes(fileData[c])
      ]_vars

\* C10 witness: with x then y put to /a, "GET /a R1" was answered with x
C10_Witness ==
    /\ pc[1] = "await"
    /\ parts[1] = <<sGET, pA, tUpperR1>>
    /\ Revisions(fileStore, pA) = <<bX, bY>>
    /\ resp[1] = OkBytes(bX)

----------------------------------------------------------------------------
(* The text rule of PUT, checked under SpecText.                           *)

\* The code point that starts at p[1] and the bytes it takes, by the
\* definition of UTF-8: n = 0 when no well-formed sequence starts there
\* (a stray or missing continuation byte, a form longer than the code
\* point needs, a surrogate, a value above U+10FFFF).
Trail(p, i) == IF i <= Len(p) /\ p[i] \in 128..191 THEN p[i] - 128 ELSE -1
DecodeRune(p) ==
    LET b == p[1]
        t2 == Trail(p, 2)
        t3 == Trail(p, 3)
        t4 == Trail(p, 4)
        cp2 == (b - 192) * 64 + t2
        cp3 == (b - 224) * 4096 + t2 * 64 + t3
        cp4 == (b - 240) * 262144 + t2 * 4096 + t3 * 64 + t4
        bad == [n |-> 0, cp |-> 0]
    IN  IF b < 128 THEN [n |-> 1, cp |-> b]
        ELSE IF b \in 192..223
             THEN IF t2 >= 0 /\ cp2 >= 128 THEN [n |-> 2, cp |-> cp2] ELSE bad
        ELSE IF b \in 224..239
             THEN IF t2 >= 0 /\ t3 >= 0 /\ cp3 >= 2048 /\ cp3 \notin 55296..57343
                  THEN [n |-> 3, cp |-> cp3] ELSE bad
        ELSE IF b \in 240..247
             THEN IF t2 >= 0 /\ t3 >= 0 /\ t4 >= 0 /\ cp4 >= 65536 /\ cp4 <= 1114111
                  THEN [n |-> 4, cp |-> cp4] ELSE bad
        ELSE bad

RECURSIVE WellFormedUTF8(_)
WellFormedUTF8(p) ==
    IF Len(p) = 0 THEN TRUE
    ELSE /\ DecodeRune(p).n > 0
         /\ WellFormedUTF8(SubSeq(p, DecodeRune(p).n + 1, Len(p)))

\* valid UTF-8, no byte below 0x20 other than 0x09, 0x0A, 0x0D, no 0x7F
TextPayload(p) ==
    /\ WellFormedUTF8(p)
    /\ \A i \in 1..Len(p) : (p[i] >= 32 \/ p[i] \in {9, 10, 13}) /\ p[i] # 127

\* the step of c that has read the body of its PUT
BodyRead(c) == pc[c] = "put_body" /\ pc'[c] \in {"put_lock", "await"}

\* C9: the body of a PUT, the declared number of bytes, is accepted iff it
\* is valid UTF-8 with no byte below 0x20 other than 0x09, 0x0A, 0x0D and no
\* byte 0x7F.  An accepted body goes on to be stored and answered OK; any
\* other is answered "ERR text files only", "READY", the store stays as it
\* was, and the connection awaits a command with exactly the declared
\* number of bytes consumed.
C9_TextOnly ==
    [][\A c \in Conns :
        /\ BodyRead(c) =>
              \E buf \in ReadFrom(c, TextCmds) :
                 LET body == SubSeq(buf, 1, length[c])
                     rest == SubSeq(buf, length[c] + 1, Len(buf))
                 IN  /\ Len(buf) >= length[c]
                     /\ reader'[c] = rest
                     /\ fileData'[c] = body
                     /\ fileStore' = fileStore
                     /\ IF TextPayload(body)
                        THEN pc'[c] = "put_lock" /\ resp'[c] = resp[c]
                        ELSE pc'[c] = "await" /\ resp'[c] = sErrTextOnly
        /\ PutStoreStep(c) =>
              /\ TextPayload(fileData[c])
              /\ storeKey[c] \in DOMAIN fileStore'
              /\ LastOf(fileStore'[storeKey[c]]) = fileData[c]
        /\ PutReplyStep(c) => resp'[c] = OkRevision(revID[c])
        /\ fileStore' # fileStore => \E d \in Conns : PutStoreStep(d)
      ]_vars

\* C9 witness: after A was stored in /a, a PUT of DEL was refused and /a
\* still holds A alone
C9_Witness ==
    /\ pc[1] = "await"
    /\ fileData[1] = <<127>>
    /\ resp[1] = sErrTextOnly
    /\ Revisions(fileStore, pA) = <<<<65>>>>

----------------------------------------------------------------------------
(* The end of a stream, checked under SpecEOF.                             *)

\* the step in which c's task ends on a failed read
StreamEnds(c) == pc[c] \in {"await", "put_body"} /\ pc'[c] = "closed"

\* c has a whole command and has not answered it yet
Busy(c) ==
    pc[c] \in {"put_lock", "put_locked", "put_reply", "get_rlock", "get_locked",
               "get_nofile", "get_norev", "get_header", "get_body",
               "list_rlock", "list_locked", "list_write"}

HoldsLock(c) == storeMutex.w = c \/ c \in storeMutex.r

\* C11: when a connection's stream ends at a command line or inside a
\* declared PUT body, its task ends without writing anything, the store and
\* the other connections' state are as before, the task holds no lock, and
\* it does nothing afterwards; and every other connection that has a whole
\* command goes on to answer it.
C11_Isolated ==
    /\ [][\A c \in Conns :
            /\ StreamEnds(c) =>
                  /\ resp'[c] = resp[c]
                  /\ fileStore' = fileStore
                  /\ storeMutex' = storeMutex
                  /\ ~HoldsLock(c)
                  /\ ~crashed'
                  /\ \A d \in Conns \ {c} : pc'[d] = pc[d] /\ resp'[d] = resp[d]
            /\ pc[c] = "closed" =>
                  /\ pc'[c] = "closed"
                  /\ resp'[c] = resp[c]
                  /\ ~HoldsLock(c)
       ]_vars
    /\ \A d \in Conns : Busy(d) ~> (pc[d] = "await")

\* C11 witness: connection 1 ended inside the two-byte body of its PUT,
\* nothing of it is in the store, and connection 2 has its PUT of y answered
C11_Witness ==
    /\ pc[1] = "closed"
    /\ length[1] = 2
    /\ parts[1] = <<sPUT, pA, <<50>>>>
    /\ resp[1] = <<>>
    /\ pc[2] = "await"
    /\ resp[2] = OkRevision(1)
    /\ Revisions(fileStore, pA) = <<bY>>

----------------------------------------------------------------------------
(* A failed write, checked under SpecWrite.                                *)

\* C12: once a write to the client has failed, the connection's task reads
\* no further command line and commits no further PUT.
C12_WriteErrorFatal ==
    [][\A c \in Conns :
        link[c] = "werr" =>
            /\ ~LineRead(c)
            /\ ~PutStoreStep(c)
            /\ fileStore' = fileStore
      ]_vars

----------------------------------------------------------------------------
(* Replies and prompts.                                                    *)

\* one line starting with ERR, then the line READY, and nothing else
ErrThenReady(bytes) ==
    /\ HasPrefix(bytes, sERR)
    /\ Len(bytes) > Len(sREADY)
    /\ IndexByte(bytes, 10) = Len(bytes) - Len(sREADY)
    /\ SubSeq(bytes, Len(bytes) - Len(sREADY) + 1, Len(bytes)) = sREADY

\* C13: every ERR line written is followed at once by exactly one READY
\* line and nothing else, the connection is then awaiting a command, and it
\* ends after an ERR only when the client's stream ends: the next command
\* line is read as any other.
C13_ErrThenReady ==
    [][\A c \in Conns :
        /\ HasPrefix(resp'[c], sERR) =>
              /\ ErrThenReady(resp'[c])
              /\ pc'[c] \in {"await", "closed"}
              /\ ~crashed'
        /\ ErrWritten(c) => pc'[c] = "await"
        /\ (HasPrefix(resp[c], sERR) /\ pc'[c] = "closed") =>
              pc[c] = "await" /\ ~HasLine(reader[c])
        /\ (HasPrefix(resp[c], sERR) /\ pc[c] = "await" /\ pc'[c] # "closed") =>
              LineRead(c)
      ]_vars

\* C13 witness: with one revision of /a stored, the third chunk, GET /a r2,
\* was answered ERR no such revision, READY, and the connection awaits a
\* command
C13_Witness ==
    /\ pc[1] = "await"
    /\ nsent = 3
    /\ parts[1] = <<sGET, pA, <<114, 50>>>>
    /\ Revisions(fileStore, pA) = <<bX>>
    /\ resp[1] = sErrNoRevision

\* how many times the prompt, READY and a newline, occurs in bytes
ReadyCount(bytes) ==
    Cardinality({i \in 1..Len(bytes) :
                    /\ i + Len(sREADY) - 1 <= Len(bytes)
                    /\ SubSeq(bytes, i, i + Len(sREADY) - 1) = sREADY})

\* bytes is a whole reply: it ends with its one prompt
WholeReply(bytes) == HasSuffix(bytes, sREADY) /\ ReadyCount(bytes) = 1

\* this step of c takes bytes out of its stream: out of what is buffered, or
\* out of a chunk that arrives for it
Consumes(c) ==
    \/ reader'[c] # reader[c]
    \/ /\ nsent' # nsent
       /\ <<pc[c], parts[c], resp[c], fileData[c]>>' # <<pc[c], parts[c], resp[c], fileData[c]>>

\* C14: within a connection the commands are handled one at a time, in the
\* order sent.  Bytes are taken from the stream only to read a command line
\* or the body that line declares; a command line is read only when the
\* reply to the command before it is out whole, READY included; and until
\* the next line is read a reply only grows.
C14_Fifo ==
    [][\A c \in Conns :
        /\ Consumes(c) => pc[c] \in {"await", "put_body"}
        /\ (Consumes(c) /\ pc[c] = "put_body" /\ pc'[c] # "closed") =>
              /\ Len(reader[c]) >= length[c]
              /\ reader'[c] = SubSeq(reader[c], length[c] + 1, Len(reader[c]))
        /\ (LineRead(c) /\ parts[c] # <<>>) => WholeReply(resp[c])
        /\ (LineRead(c) /\ HasLine(reader[c])) =>
              reader'[c] = AfterFirstNewline(reader[c])
        /\ (resp'[c] # resp[c] /\ ~LineRead(c)) => IsPrefix(resp[c], resp'[c])
      ]_vars

\* C14 witness: GET /a and GET /a r1 came in one chunk; the second line is
\* still unread while the reply to the first is being written
C14_Witness ==
    /\ pc[1] = "get_body"
    /\ parts[1] = <<sGET, pA>>
    /\ reader[1] = CmdLine(<<sGET, pA, tR1>>)
    /\ resp[1] = sOK \o <<49, 10>>

\* the line that ends at the first newline of buf, the newline left out
RECURSIVE FirstLine(_)
FirstLine(buf) ==
    IF Len(buf) = 0 \/ Head(buf) = 10 THEN <<>>
    ELSE <<Head(buf)>> \o FirstLine(Tail(buf))

WhitespaceOnly(line) == \A i \in 1..Len(line) : line[i] \in {9, 11, 12, 13, 32}

\* C15: the prompts, step by step.  The greeting is one READY.  A line that
\* is empty or whitespace only is read without any reply and leaves the
\* connection awaiting a command.  The reply to any other command line holds
\* no READY while the command is under way and exactly one, at its end, when
\* the connection awaits the next command.  (By induction over the steps,
\* the prompts written are one more than the commands handled to the end.)
C15_ReadyAccounting ==
    [][\A c \in Conns :
        /\ (pc[c] = "greet" /\ pc'[c] # "greet") =>
              pc'[c] = "await" /\ resp'[c] = sREADY
        /\ LineRead(c) =>
              \E buf \in ReadFrom(c, PipeCmds) :
                  /\ reader'[c] = AfterFirstNewline(buf)
                  /\ WhitespaceOnly(FirstLine(buf)) <=> parts'[c] = <<>>
        /\ (LineRead(c) /\ parts'[c] = <<>>) =>
              /\ resp'[c] = <<>>
              /\ pc'[c] = "await"
              /\ fileStore' = fileStore
        /\ (parts'[c] # <<>> /\ pc'[c] = "await" /\ resp'[c] # resp[c]) =>
              WholeReply(resp'[c])
        /\ (parts'[c] # <<>> /\ pc'[c] = "await") => ReadyCount(resp'[c]) = 1
        /\ pc'[c] \notin {"greet", "await", "closed"} => ReadyCount(resp'[c]) = 0
        /\ pc'[c] = "closed" => resp'[c] = resp[c]
      ]_vars

\* C15 witness: the empty line at the head of a chunk was read, nothing was
\* written for it, and HELP, the line after it, is the next to be read
C15_Witness ==
    /\ pc[1] = "await"
    /\ nsent = 1
    /\ parts[1] = <<>>
    /\ resp[1] = <<>>
    /\ reader[1] = CmdLine(<<sHELP>>)

----------------------------------------------------------------------------
(* Paths and listings, checked under SpecList.                             *)

IsLetter(b) == b \in (65..90) \cup (97..122)
FlipCase(b) == IF b \in 65..90 THEN b + 32 ELSE IF b \in 97..122 THEN b - 32 ELSE b

\* spellings of p that differ from it in case only: all letters small, all
\* capital, all flipped, and each single letter flipped
CaseVariants(p) ==
    { [i \in 1..Len(p) |-> IF p[i] \in 65..90 THEN p[i] + 32 ELSE p[i]],
      [i \in 1..Len(p) |-> IF p[i] \in 97..122 THEN p[i] - 32 ELSE p[i]],
      [i \in 1..Len(p) |-> FlipCase(p[i])] }
    \cup { [i \in 1..Len(p) |-> IF i = j THEN FlipCase(p[i]) ELSE p[i]] : j \in 1..Len(p) }

\* the command with its path spelled v
Respelled(args, v) == [i \in 1..Len(args) |-> IF i = 2 THEN v ELSE args[i]]

WithSlash(d) == IF Len(d) > 0 /\ d[Len(d)] = 47 THEN d ELSE d \o <<47>>

ListScanStep(c) == pc[c] = "list_locked" /\ pc'[c] = "list_write"
ListWriteStep(c) == pc[c] = "list_write" /\ pc'[c] = "await"

\* C16: what PUT, GET and LIST do does not depend on the case of the letters
\* of the path.  Under every other spelling of its path a PUT header is
\* judged the same and names the same key, whose file the PUT then appends
\* to or finds its payload at the end of; a GET finds the same revision of
\* the same file or the same error; a LIST scans the same directory.
C16_CaseInsensitive ==
    [][\A c \in Conns :
        /\ (LineRead(c) /\ IsPutHeader(parts'[c]) /\ Len(parts'[c]) = 3) =>
              \A v \in CaseVariants(parts'[c][2]) :
                  /\ PutHeader(Respelled(parts'[c], v)) = PutHeader(parts'[c])
                  /\ pc'[c] = "put_body" => storeKey'[c] = PutHeader(Respelled(parts'[c], v)).key
        /\ PutStoreStep(c) =>
              \A v \in CaseVariants(parts[c][2]) :
                  /\ fileStore' = StorePut(fileStore, PutHeader(Respelled(parts[c], v)).key,
                                           fileData[c]).store
                  /\ revID'[c] = StorePut(fileStore, PutHeader(Respelled(parts[c], v)).key,
                                          fileData[c]).revID
        /\ GetLookupStep(c) =>
              \A v \in CaseVariants(parts[c][2]) :
                  LET got == StoreGet(fileStore, ToLower(v), Respelled(parts[c], v))
                  IN  /\ got.status = "ok" <=> pc'[c] = "get_header"
                      /\ got.status = "ok" => fileData'[c] = got.data
                      /\ got.status = "nofile" <=> pc'[c] = "get_nofile"
                      /\ got.status = "norev" <=> pc'[c] = "get_norev"
        /\ GetErrorStep(c) =>
              resp'[c] = IF pc[c] = "get_nofile" THEN sErrNoFile ELSE sErrNoRevision
        /\ ListScanStep(c) =>
              \A v \in CaseVariants(parts[c][2]) :
                  entries'[c] = StoreList(fileStore, WithSlash(ToLower(v)))
        /\ ListWriteStep(c) => resp'[c] = ListReply(entries[c])
      ]_vars

\* C16 witness: x was put to /Dir/File.TXT and y to /dir/file.txt, which is
\* one file of two revisions, and GET /DIR/FILE.TXT was answered with y
C16_Witness ==
    /\ pc[1] = "await"
    /\ parts[1] = <<sGET, pDirFileUpper>>
    /\ Revisions(fileStore, pDirFileLower) = <<bX, bY>>
    /\ resp[1] = OkBytes(bY)

\* the lines of bytes, newlines left out; bytes after the last newline are
\* a line too
RECURSIVE SplitLines(_)
SplitLines(bytes) ==
    IF Len(bytes) = 0 THEN <<>>
    ELSE IF IndexByte(bytes, 10) = 0 THEN <<bytes>>
    ELSE <<FirstLine(bytes)>> \o SplitLines(AfterFirstNewline(bytes))

\* the entry lines of a LIST reply: those between its first and last line
EntryLines(reply) ==
    LET lines == SplitLines(reply)
    IN  IF Len(lines) < 2 THEN <<>> ELSE SubSeq(lines, 2, Len(lines) - 1)

\* an entry line is a name, a space and the metadata
NameOfEntry(line) == SubSeq(line, 1, IndexByte(line, 32) - 1)
MetaOfEntry(line) == SubSeq(line, IndexByte(line, 32) + 1, Len(line))
ReplyNames(reply) == [i \in 1..Len(EntryLines(reply)) |-> NameOfEntry(EntryLines(reply)[i])]

\* a comes before b in byte order
RECURSIVE BytesBefore(_, _)
BytesBefore(a, b) ==
    IF Len(a) = 0 THEN Len(b) > 0
    ELSE IF Len(b) = 0 THEN FALSE
    ELSE IF Head(a) # Head(b) THEN Head(a) < Head(b)
    ELSE BytesBefore(Tail(a), Tail(b))

tFileTxt == <<102, 105, 108, 101, 46, 116, 120, 116>>    \* file.txt
tSubDir == <<115, 117, 98, 47>>                          \* sub/

\* C17: in every LIST reply the first line is OK and the number of entry
\* lines, the last line is READY, every entry line has a name and its
\* metadata, and the names ascend strictly in byte order, so that none
\* occurs twice.
C17_ListSorted ==
    [][\A c \in Conns :
        ListWriteStep(c) =>
            LET lines == SplitLines(resp'[c])
                names == ReplyNames(resp'[c])
            IN  /\ resp[c] = <<>>
                /\ resp'[c][Len(resp'[c])] = 10
                /\ Len(lines) >= 2
                /\ HasPrefix(lines[1], sOK)
                /\ ~Atoi(SubSeq(lines[1], Len(sOK) + 1, Len(lines[1]))).err
                /\ Atoi(SubSeq(lines[1], Len(sOK) + 1, Len(lines[1]))).val = Len(names)
                /\ lines[Len(lines)] \o <<10>> = sREADY
                /\ \A i \in 1..Len(names) : IndexByte(EntryLines(resp'[c])[i], 32) # 0
                /\ \A i \in 1..(Len(names) - 1) : BytesBefore(names[i], names[i + 1])
      ]_vars

\* C17 witness: with the tree uploaded, the reply to LIST /Dir/ is OK 2 and
\* two entries, file.txt before sub/
C17_Witness ==
    /\ pc[1] = "await"
    /\ parts[1] = <<sLIST, dDirSlash>>
    /\ HasPrefix(resp[1], sOK \o <<50, 10>>)
    /\ ReplyNames(resp[1]) = <<tFileTxt, tSubDir>>

\* key lies under prefix; what follows the prefix; the part of that before
\* its first "/"
Under(key, prefix) ==
    Len(key) >= Len(prefix) /\ SubSeq(key, 1, Len(prefix)) = prefix
RestOf(key, prefix) == SubSeq(key, Len(prefix) + 1, Len(key))
HasSlash(s) == \E i \in 1..Len(s) : s[i] = 47
RECURSIVE FirstSegment(_)
FirstSegment(s) ==
    IF Len(s) = 0 \/ Head(s) = 47 THEN <<>> ELSE <<Head(s)>> \o FirstSegment(Tail(s))

\* the entry lines LIST d owes for a store: "<rel> r<count>" for the keys
\* prefix+rel with no "/" in rel, "<seg>/ DIR" for the first segments of the
\* others under prefix
ChildLines(store, d) ==
    LET prefix == WithSlash(ToLower(d))
        under == {key \in DOMAIN store : Under(key, prefix)}
    IN  { RestOf(key, prefix) \o <<32, 114>> \o Itoa(Len(store[key])) :
            key \in {k \in under : ~HasSlash(RestOf(k, prefix))} }
        \cup
        { FirstSegment(RestOf(key, prefix)) \o <<47, 32>> \o sDIR :
            key \in {k \in under : HasSlash(RestOf(k, prefix))} }

\* C18: the entry lines of the reply to LIST d are exactly the lines owed
\* for the immediate children of d, each once; a key that only shares d as
\* a string prefix, without the "/" after it, gives no line; and when no key
\* lies under d the reply is OK 0, READY.
C18_ListChildren ==
    [][\A c \in Conns :
        ListWriteStep(c) =>
            LET owed == ChildLines(fileStore, parts[c][2])
                lines == EntryLines(resp'[c])
            IN  /\ {lines[i] : i \in 1..Len(lines)} = owed
                /\ Len(lines) = Cardinality(owed)
                /\ owed = {} => resp'[c] = sOK \o <<48, 10>> \o sREADY
      ]_vars

\* C18 witness: with the tree and a file /dir/ stored, LIST /dir shows the
\* file of empty name, file.txt and sub/, and nothing of /dirx/a or /b
C18_Witness ==
    /\ pc[1] = "await"
    /\ parts[1] = <<sLIST, dDir>>
    /\ {pDirxA, pB, ToLower(pDirSlash)} \subseteq DOMAIN fileStore
    /\ ReplyNames(resp[1]) = <<<<>>, tFileTxt, tSubDir>>

tFileTXT == <<70, 105, 108, 101, 46, 84, 88, 84>>    \* File.TXT

\* C19: LIST shows a file under the spelling the client used in its PUT:
\* when /dir/file.txt was created by PUT /Dir/File.TXT (the one PUT of that
\* file that carries x as the first payload), LIST /dir, however spelled,
\* has the entry File.TXT.
C19_OriginalCasing ==
    [][\A c \in Conns :
        (/\ ListWriteStep(c)
         /\ WithSlash(ToLower(parts[c][2])) = ToLower(dDirSlash)
         /\ pDirFileLower \in DOMAIN fileStore
         /\ fileStore[pDirFileLower][1] = bX) =>
            \E i \in 1..Len(EntryLines(resp'[c])) :
                NameOfEntry(EntryLines(resp'[c])[i]) = tFileTXT
      ]_vars

----------------------------------------------------------------------------
(* Revision ids under concurrency, checked under Spec.                     *)

\* C20: the ids of a file are dense and unique.  The store changes only in
\* the critical section of a PUT, by one revision of one key; the PUT that
\* adds revision n of a key gets the id n, one more than the id of the PUT
\* that added the revision before it, and is answered with it; a PUT that
\* adds nothing gets the id of a revision that exists.  So the ids given to
\* the PUTs that created the revisions of a key (the history `committed`
\* has one entry for each of them) are 1..len, each given once.
C20_DenseIds ==
    [][/\ \A c \in Conns :
            /\ PutStoreStep(c) =>
                  LET k == storeKey[c]
                      n == Len(Revisions(fileStore, k))
                  IN  IF fileStore' # fileStore
                      THEN /\ revID'[c] = n + 1
                           /\ Len(fileStore'[k]) = n + 1
                           /\ Len(committed'[k]) = Len(Revisions(committed, k)) + 1
                           /\ \A o \in DOMAIN fileStore \ {k} : fileStore'[o] = fileStore[o]
                      ELSE /\ revID'[c] \in 1..n
                           /\ committed' = committed
            /\ PutReplyStep(c) => resp'[c] = OkRevision(revID[c])
       /\ fileStore' # fileStore => \E c \in Conns : PutStoreStep(c)
       /\ committed' # committed => fileStore' # fileStore
       /\ DOMAIN committed' = DOMAIN fileStore'
       /\ \A k \in DOMAIN fileStore' :
            Len(fileStore'[k]) >= 1 /\ Len(committed'[k]) = Len(fileStore'[k])
      ]_vars

\* C20 witness: /a has three revisions, and the two connections hold the
\* ids 2 and 3 for the PUTs they have just been answered
C20_Witness ==
    /\ Len(Revisions(fileStore, pA)) = 3
    /\ \A c \in Conns : pc[c] = "await" /\ IsPutHeader(parts[c])
    /\ {resp[1], resp[2]} = {OkRevision(2), OkRevision(3)}

\* the reply a LIST of d owes on a store: the count line, the owed lines in
\* byte order of their names, the prompt
Projection(store, d) ==
    LET owed == ChildLines(store, d)
        byName == [n \in {NameOfEntry(l) : l \in owed} |->
                      MetaOfEntry(CHOOSE l \in owed : NameOfEntry(l) = n)]
    IN  ListReply(byName)

\* C21: a LIST that runs while other connections PUT reports one state of
\* the store.  While the LIST holds its lock for the scan the store does not
\* change; what the scan collects is owed by the store of that moment, one
\* entry per name; what it collected stays as it is until the reply, whatever
\* is committed meanwhile; and the reply is the reply owed on the scanned
\* store.
C21_ListSnapshot ==
    [][\A c \in Conns :
        /\ pc[c] = "list_locked" =>
              \/ ListScanStep(c)
              \/ fileStore' = fileStore /\ pc'[c] = pc[c]
        /\ ListScanStep(c) =>
              /\ fileStore' = fileStore
              /\ ListReply(entries'[c]) = Projection(fileStore, parts[c][2])
              /\ Cardinality(DOMAIN entries'[c])
                    = Cardinality(ChildLines(fileStore, parts[c][2]))
        /\ pc[c] = "list_write" =>
              /\ entries'[c] = entries[c]
              /\ ListWriteStep(c) \/ (pc'[c] = pc[c] /\ resp'[c] = resp[c])
        /\ ListWriteStep(c) =>
              /\ resp'[c] = ListReply(entries[c])
              /\ LET names == ReplyNames(resp'[c])
                 IN  \A i, j \in 1..Len(names) : names[i] = names[j] => i = j
      ]_vars

\* C21 witness: connection 1 is about to answer LIST / with what it scanned,
\* a r1, while the second revision of /a, committed by connection 2 after
\* the scan, is already in the store
C21_Witness ==
    /\ pc[1] = "list_write"
    /\ parts[1] = <<sLIST, dRoot>>
    /\ ListReply(entries[1])
          = sOK \o <<49, 10, 97, 32, 114, 49, 10>> \o sREADY
    /\ Len(Revisions(fileStore, pA)) = 2
    /\ pc[2] = "put_reply"

LockedPcs == {"put_locked", "get_locked", "list_locked"}
LockWaitPcs == {"put_lock", "get_rlock", "list_rlock"}
ClientIO(c) ==
    \/ reader'[c] # reader[c]
    \/ resp'[c] # resp[c]
    \/ link'[c] # link[c]
    \/ pc'[c] = "closed" /\ pc[c] # "closed"

\* C22: a connection holds the store lock exactly in the three places
\* between an acquire and its release, as writer or as reader and never as
\* both; it gets the lock only by the acquire of its PUT, GET or LIST; the
\* step that leaves such a place, the error exits of GET among them,
\* releases it; and while it holds the lock it neither reads from nor writes
\* to its client, nor reads a command, nor ends.
C22_LockDiscipline ==
    [][\A c \in Conns :
        /\ HoldsLock(c) <=> pc[c] \in LockedPcs
        /\ ~(storeMutex.w = c /\ c \in storeMutex.r)
        /\ (~HoldsLock(c) /\ HoldsLock(c)') => pc[c] \in LockWaitPcs
        /\ (HoldsLock(c) /\ pc'[c] # pc[c]) =>
              /\ ~HoldsLock(c)'
              /\ pc'[c] \in {"put_reply", "get_header", "get_nofile", "get_norev",
                             "list_write"}
        /\ HoldsLock(c) => ~ClientIO(c)
        /\ ClientIO(c) => ~HoldsLock(c)'
      ]_vars

\* C22 witness: connection 1 left its GET by the exit of the revision that
\* does not exist and has the ERR line still to write, and connection 2 is
\* already inside the critical section of its PUT
C22_Witness ==
    /\ pc[1] = "get_norev"
    /\ parts[1] = <<sGET, pA, tR2>>
    /\ ~HoldsLock(1)
    /\ pc[2] = "put_locked"
    /\ storeMutex = [w |-> 2, r |-> {}]

\* the connection has read a whole command and has not answered it yet
Pending(c) == Busy(c) \/ pc[c] = "panic"
\* the reply of the command, its READY at the end, is written
Emitted(c) == pc[c] = "await" /\ WholeReply(resp[c])

\* C23: under fair scheduling a connection that has read a whole command
\* comes to the end of that command's reply, the READY written, whatever the
\* other connection sends, withholds or breaks off; and a connection that
\* waits for the store lock gets it.
C23_Progress ==
    \A c \in Conns :
        /\ Pending(c) ~> Emitted(c)
        /\ (pc[c] \in LockWaitPcs) ~> HoldsLock(c)

\* the same, for as long as the process lives
C23_ProgressWhileAlive ==
    \A c \in Conns :
        /\ Busy(c) ~> (Emitted(c) \/ crashed)
        /\ (pc[c] \in LockWaitPcs) ~> (HoldsLock(c) \/ crashed)

\* connection 1 waits for the read lock of its GET and the process has
\* stopped on connection 2's PUT of negative length
C23_Stopped ==
    /\ pc[1] = "get_rlock"
    /\ parts[1] = <<sGET, pA>>
    /\ pc[2] = "panic"
    /\ crashed

============================================================================
